---- MODULE Spec2Model ----
(***************************************************************************)
(* Model of scripts/fetch-deal-images.mjs: the candidate extractors         *)
(* (pickOgImage, pickFromLdJson, pickFirstLargeImg, pickAmazonImage), the   *)
(* URL utilities, and the record loop of main().                            *)
(*                                                                          *)
(* A string or JSON value is abstracted to a record [k, n, px, cdn]:        *)
(*   k   "null"  undefined / null / absent attribute                        *)
(*       "empty" the empty string                                           *)
(*       "obj"   a truthy value that is not a string (object, number)       *)
(*       "abs"   a string starting with http:// or https://                 *)
(*       "prel"  a string starting with //                                  *)
(*       "rel"   a relative reference                                       *)
(*       "data"  a data: URL                                                *)
(*       "bad"   a string new URL() rejects whatever the base               *)
(*   n   the resource the string names once it is resolved                  *)
(*   px  the string matches the tracking-pixel patterns                     *)
(*   cdn the string matches /m\.media-amazon\.com\/images\//                *)
(***************************************************************************)
EXTENDS Integers, Sequences, FiniteSets, TLC

Url(k, n, px, cdn) == [k |-> k, n |-> n, px |-> px, cdn |-> cdn]

Null == Url("null", 0, FALSE, FALSE)

Empty == Url("empty", 0, FALSE, FALSE)

ObjVal == Url("obj", 0, FALSE, FALSE)

\* JavaScript truthiness of a value
Truthy(v) == v.k \notin {"null", "empty"}

IsString(v) == v.k \in {"empty", "abs", "prel", "rel", "data", "bad"}

\* a || b
Or(a, b) == IF Truthy(a) THEN a ELSE b

\* A page address (d.url) that new URL() accepts: whether its hostname is in
\* the amazon family, and whether its origin or directory matches /pixel/i.
PageUrl(amazon, px) == [k |-> "page", amazon |-> amazon, px |-> px]

\* the base argument left undefined
NoBase == [k |-> "none", amazon |-> FALSE, px |-> FALSE]

\* d.url absent or empty
NoUrl == [k |-> "missing", amazon |-> FALSE, px |-> FALSE]

\* ---------------------------------------------------------------- utilities

absolutize(url, base) ==
    IF ~Truthy(url) THEN Null
    ELSE IF url.k = "obj" THEN Null                 \* url.startsWith throws
    ELSE IF url.k = "prel" THEN [url EXCEPT !.k = "abs"]
    ELSE IF url.k = "abs" THEN url
    ELSE IF url.k = "data" THEN url                 \* new URL(url, base).href
    ELSE IF url.k = "bad" THEN Null                 \* new URL throws
    ELSE IF base.k # "page" THEN Null               \* relative, unusable base
    ELSE [url EXCEPT !.k = "abs", !.px = url.px \/ base.px]

isAmazonUrl(u) == u.k = "page" /\ u.amazon

isTrackingPixelUrl(u) == u.px

\* ------------------------------------------------------------------ pickers

NumMetaSels == 5

\* doc.meta[i]: the content attribute found by the i-th selector of sels
pickOgImage(doc) ==
    LET hits == {i \in 1..NumMetaSels : Truthy(doc.meta[i])}
    IN  IF hits = {} THEN Null
        ELSE doc.meta[CHOOSE i \in hits : \A j \in hits : i <= j]

\* An item of a JSON-LD payload: isObj is FALSE for null and scalars.
\*   image.t  "absent" | "str" | "arr" (non-empty, v its first element)
\*            | "arr0" (empty array) | "other" (object, number, ...)
\*   offers.t "absent" | "obj" (v its image when that is a string, else Null)
\*            | "other"
pull(obj) ==
    IF ~obj.isObj THEN Null
    ELSE IF obj.image.t = "str" THEN obj.image.v
    ELSE IF obj.image.t = "arr" THEN obj.image.v
    ELSE IF obj.offers.t = "obj" /\ IsString(obj.offers.v) THEN obj.offers.v
    ELSE Null

RECURSIVE pullItems(_, _)
pullItems(items, i) ==
    IF i > Len(items) THEN Null
    ELSE IF Truthy(pull(items[i])) THEN pull(items[i])
    ELSE pullItems(items, i + 1)

\* One iteration of the loop over the ld+json scripts.
\*   block.t "empty" (no text) | "badjson" | "obj" (items = <<the object>>)
\*           | "arr" (items = its elements) | "other" (null, scalar)
ldBlock(block) ==
    IF block.t = "empty" THEN Null
    ELSE IF block.t = "badjson" THEN Null
    ELSE IF block.t = "obj" THEN Or(pull(block.items[1]), Null)
    ELSE IF block.t = "arr" THEN pullItems(block.items, 1)
    ELSE Null

RECURSIVE ldScan(_, _)
ldScan(blocks, i) ==
    IF i > Len(blocks) THEN Null
    ELSE IF Truthy(ldBlock(blocks[i])) THEN ldBlock(blocks[i])
    ELSE ldScan(blocks, i + 1)

pickFromLdJson(doc) == ldScan(doc.ld, 1)

\* Object.keys of an array are its indices: "0", "1", ...
IdxKey(i) == Url("rel", 0 - i, FALSE, FALSE)

\* Object.entries(json) of a parsed data-a-dynamic-image attribute
\*   dyn.t "absent" | "empty" | "badjson" | "null" | "map" | "array"
\*   dyn.ents: <<[key, size]>>, size = [arr, w, h]
ObjectEntries(dyn) ==
    IF dyn.t = "map" THEN dyn.ents
    ELSE IF dyn.t = "array"
         THEN [i \in 1..Len(dyn.ents) |-> [key |-> IdxKey(i), size |-> dyn.ents[i].size]]
    ELSE <<>>

ObjectKeys(dyn) == [i \in 1..Len(ObjectEntries(dyn)) |-> ObjectEntries(dyn)[i].key]

\* what one img element pushes on candidates
elCandidates(el) ==
    (IF Truthy(el.src) THEN <<el.src>> ELSE <<>>)
    \o SelectSeq(el.srcset, Truthy)
    \o ObjectKeys(el.dyn)

RECURSIVE collect(_, _)
collect(imgs, i) ==
    IF i > Len(imgs) THEN <<>>
    ELSE (IF imgs[i].src.k # "null" \/ imgs[i].srcset # <<>>
          THEN elCandidates(imgs[i]) ELSE <<>>)
         \o collect(imgs, i + 1)

keepCandidate(u) == Truthy(u) /\ ~isTrackingPixelUrl(u) /\ u.k # "data"

pickFirstLargeImg(doc, baseUrl) ==
    LET raw == collect(doc.imgs, 1)
        abs == [i \in 1..Len(raw) |-> absolutize(raw[i], baseUrl)]
        candidates == SelectSeq(abs, keepCandidate)
        prefer == SelectSeq(candidates, LAMBDA u : u.cdn)
    IN  IF prefer # <<>> THEN prefer[1]
        ELSE IF candidates # <<>> THEN candidates[1]
        ELSE Null

sizeArea(size) == IF size.arr THEN size.w * size.h ELSE 0

\* largest with >= in place of >: a later entry of equal area wins
RECURSIVE largestLastWins(_, _, _, _)
largestLastWins(ents, i, best, bestArea) ==
    IF i > Len(ents) THEN best
    ELSE IF sizeArea(ents[i].size) >= bestArea
         THEN largestLastWins(ents, i + 1, ents[i].key, sizeArea(ents[i].size))
         ELSE largestLastWins(ents, i + 1, best, bestArea)

\* lines 149-158, the loop "choose largest by area"
RECURSIVE largest(_, _, _, _)
largest(ents, i, best, bestArea) ==
    IF i > Len(ents) THEN best
    ELSE IF sizeArea(ents[i].size) > bestArea
         THEN largest(ents, i + 1, ents[i].key, sizeArea(ents[i].size))
         ELSE largest(ents, i + 1, best, bestArea)

NoEl == [role |-> "none", src |-> Null, hires |-> Null, srcset |-> <<>>,
         dyn |-> [t |-> "absent", ents |-> <<>>]]

tryEl(el) ==
    IF el.role = "none" THEN Null
    ELSE IF Truthy(el.hires) THEN el.hires
    ELSE IF Truthy(el.src) THEN el.src
    ELSE IF el.dyn.t \in {"map", "array"}
         THEN Or(largest(ObjectEntries(el.dyn), 1, Null, 0), Null)
    ELSE Null

\* $("#landingImage"), $("#imgTagWrapperId img"): attr() reads the first match
byRole(doc, role) ==
    LET hits == {i \in 1..Len(doc.imgs) : doc.imgs[i].role = role}
    IN  IF hits = {} THEN NoEl
        ELSE doc.imgs[CHOOSE i \in hits : \A j \in hits : i <= j]

pickAmazonImage(doc) ==
    IF Truthy(tryEl(byRole(doc, "landing"))) THEN tryEl(byRole(doc, "landing"))
    ELSE IF Truthy(tryEl(byRole(doc, "wrapper"))) THEN tryEl(byRole(doc, "wrapper"))
    ELSE pickFirstLargeImg(doc, NoBase)

\* ---------------------------------------------------- main: per-record logic

\* selectImage with the meta tags read before the marketplace landmarks
selectImageMetaFirst(doc, url) ==
    absolutize(
        IF isAmazonUrl(url)
        THEN Or(pickOgImage(doc),
                Or(pickAmazonImage(doc),
                   Or(pickFromLdJson(doc), pickFirstLargeImg(doc, url))))
        ELSE Or(pickOgImage(doc),
                Or(pickFromLdJson(doc), pickFirstLargeImg(doc, url))),
        url)

\* lines 231-245: the || chains and the absolutize that follows
selectImage(doc, url) ==
    absolutize(
        IF isAmazonUrl(url)
        THEN Or(pickAmazonImage(doc),
                Or(pickOgImage(doc),
                   Or(pickFromLdJson(doc), pickFirstLargeImg(doc, url))))
        ELSE Or(pickOgImage(doc),
                Or(pickFromLdJson(doc), pickFirstLargeImg(doc, url))),
        url)

\* line 247
noUsableImage(imgUrl) == ~Truthy(imgUrl) \/ isTrackingPixelUrl(imgUrl)

MinArea == 10000

\* sharp(buf).metadata(): ok = FALSE when it throws; w or h = 0 when the
\* decoded metadata carries no such field
NoMeta == [ok |-> FALSE, w |-> 0, h |-> 0]

\* line 262
tooTiny(meta) ==
    ~meta.ok \/ (meta.w # 0 /\ meta.h # 0 /\ meta.w * meta.h < MinArea)

\* lines 264-265
fallbackOf(doc, url) == absolutize(pickFirstLargeImg(doc, url), url)

\* useFallback without the comparison with the first candidate
useFallbackEvenIfSame(absFallback, imgUrl) ==
    Truthy(absFallback) /\ ~isTrackingPixelUrl(absFallback)

\* line 266
useFallback(absFallback, imgUrl) ==
    Truthy(absFallback) /\ absFallback # imgUrl /\ ~isTrackingPixelUrl(absFallback)

\* skipRecord without the test of d.id
skipRecordNoId(d) == d.image.t \notin {"absent", "empty"} \/ d.url.k # "page"

\* skipRecord without the test of d.image
skipRecordNoImage(d) == d.url.k # "page" \/ d.id = 0

\* lines 223-224: the two continue statements
skipRecord(d) == d.image.t \notin {"absent", "empty"} \/ d.url.k # "page" \/ d.id = 0

\* line 280
imagePath(d) == [t |-> "webp", id |-> d.id]

\* line 281
altOf(d) == IF d.imageAlt \notin {"absent", ""} THEN d.imageAlt ELSE d.title

\* the store rewritten whether or not a record changed
shouldPersistAlways(ch) == TRUE

\* line 291
shouldPersist(ch) == ch

\* ------------------------------------------------------------------- inputs

MaxRecords == 2

MaxRuns == 2

Doc(meta, ld, imgs) == [meta |-> meta, ld |-> ld, imgs |-> imgs]

NoMetaTags == [i \in 1..NumMetaSels |-> Null]

MetaAt(p, v) == [i \in 1..NumMetaSels |-> IF i = p THEN v ELSE Null]

NoDyn == [t |-> "absent", ents |-> <<>>]

Img(role, src, hires, srcset, dyn) ==
    [role |-> role, src |-> src, hires |-> hires, srcset |-> srcset, dyn |-> dyn]

PlainImg(src) == Img("plain", src, Null, <<>>, NoDyn)

LdImage(v) ==
    [t |-> "obj",
     items |-> <<[isObj |-> TRUE, image |-> [t |-> "str", v |-> v],
                  offers |-> [t |-> "absent", v |-> Null]]>>]

A1 == Url("abs", 1, FALSE, FALSE)
A2 == Url("abs", 2, FALSE, FALSE)
R1 == Url("rel", 1, FALSE, FALSE)
P2 == Url("prel", 2, FALSE, FALSE)
D3 == Url("data", 3, FALSE, FALSE)
B4 == Url("bad", 4, FALSE, FALSE)
X5 == Url("abs", 5, TRUE, FALSE)
C6 == Url("abs", 6, FALSE, TRUE)

LdFirstOfArray(v) ==
    [t |-> "obj",
     items |-> <<[isObj |-> TRUE, image |-> [t |-> "arr", v |-> v],
                  offers |-> [t |-> "absent", v |-> Null]]>>]

MainMetas == {NoMetaTags, MetaAt(1, A1), MetaAt(4, R1), MetaAt(1, X5), MetaAt(1, D3)}

MainLds == {<<>>, <<[t |-> "badjson", items |-> <<>>], LdImage(A2)>>}

MainImgs ==
    { <<>>,
      <<PlainImg(D3), PlainImg(A2)>>,
      <<Img("landing", R1, Null, <<>>, NoDyn), PlainImg(C6)>> }

\* the pages the record loop is run against
MainDocs ==
    { Doc(m, l, i) : m \in MainMetas, l \in MainLds, i \in MainImgs }
    \cup { Doc(NoMetaTags, <<LdFirstOfArray(ObjVal)>>, <<PlainImg(A1)>>),
           Doc(MetaAt(1, A1), <<>>, <<PlainImg(A1)>>),
           Doc(MetaAt(1, X5), <<>>, <<PlainImg(X5)>>),
           Doc(MetaAt(2, A2), <<>>, <<Img("wrapper", Empty, A1, <<>>, NoDyn)>>) }

Meta(w, h) == [ok |-> TRUE, w |-> w, h |-> h]

\* what the first download may decode to: nothing, no width, no height,
\* 50x50, 50x200 (area 10,000), 200x200
Metas == {NoMeta, Meta(0, 200), Meta(200, 0), Meta(50, 50), Meta(50, 200), Meta(200, 200)}

\* what the fallback download may decode to
FallbackMetas == {NoMeta, Meta(50, 50), Meta(200, 200)}

NoImage == [t |-> "absent", id |-> 0]

Rec(id, url, image, alt) ==
    [id |-> id, url |-> url, image |-> image, imageAlt |-> alt, title |-> "Widget"]

\* the records position i of a catalog may hold
RecsAt(i) ==
    { Rec(i, PageUrl(FALSE, FALSE), NoImage, "absent"),
      Rec(i, PageUrl(TRUE, FALSE), [t |-> "empty", id |-> 0], "Alt"),
      Rec(i, PageUrl(FALSE, FALSE), [t |-> "preset", id |-> i], "absent"),
      Rec(0, PageUrl(FALSE, FALSE), NoImage, "absent"),
      Rec(i, NoUrl, NoImage, "Alt") }

Catalogs ==
    UNION { {c \in [1..n -> UNION {RecsAt(i) : i \in 1..n}] :
                \A i \in 1..n : c[i] \in RecsAt(i)} : n \in 0..MaxRecords }

\* -------------------------------------------------------------------- state

VARIABLES
    store,       \* deals.json on disk
    loaded,      \* the catalog as readFile returned it in this run
    emptyStart,  \* every record of the first catalog had an empty image
    run,         \* how many times the script has been started
    pc,          \* where main() is
    deals,       \* the parsed array
    idx,         \* position of the for-of loop
    changed,
    cur,         \* locals of the try block
    outcome,     \* per record, this run: "none", "skip", "noimage", "failed", "ok"
    pageFetches, \* per record, this run: calls of getHtml
    downloads,   \* per record, this run: calls of getBuffer
    fileWrites,  \* per record, this run: calls of writeFile(outPath)
    storeWrites, \* this run: calls of writeFile(DEALS_PATH)
    x            \* a document, a page address and what each picker returns on them

vars == <<store, loaded, emptyStart, run, pc, deals, idx, changed, cur, outcome,
          pageFetches, downloads, fileWrites, storeWrites, x>>

mainVars == <<store, loaded, emptyStart, run, pc, deals, idx, changed, cur, outcome,
              pageFetches, downloads, fileWrites, storeWrites>>

NoDoc == Doc(NoMetaTags, <<>>, <<>>)

NoCur == [doc |-> NoDoc, imgUrl |-> Null, meta |-> NoMeta, rescanned |-> FALSE,
          absFallback |-> Null, gets |-> <<>>, buf |-> "none", meta2 |-> NoMeta]

Zeros(c) == [i \in 1..Len(c) |-> 0]

NoPick == [step |-> "idle", doc |-> NoDoc, url |-> NoBase,
           og |-> Null, ld |-> Null, gen |-> Null, amz |-> Null]

Init ==
    /\ store \in Catalogs
    /\ loaded = <<>>
    /\ emptyStart = \A i \in 1..Len(store) : store[i].image.t \in {"absent", "empty"}
    /\ run = 1
    /\ pc = "start"
    /\ deals = <<>>
    /\ idx = 0
    /\ changed = FALSE
    /\ cur = NoCur
    /\ outcome = <<>>
    /\ pageFetches = <<>>
    /\ downloads = <<>>
    /\ fileWrites = <<>>
    /\ storeWrites = 0
    /\ x = NoPick

\* lines 213-220
ReadCatalog ==
    /\ pc = "start"
    /\ loaded' = store
    /\ deals' = store
    /\ changed' = FALSE
    /\ idx' = 1
    /\ pc' = "loop"
    /\ outcome' = [i \in 1..Len(store) |-> "none"]
    /\ pageFetches' = Zeros(store)
    /\ downloads' = Zeros(store)
    /\ fileWrites' = Zeros(store)
    /\ storeWrites' = 0
    /\ UNCHANGED <<store, emptyStart, run, cur, x>>

\* the end of one iteration: continue, or the end of the try/catch
nextRecord(result) ==
    /\ outcome' = [outcome EXCEPT ![idx] = result]
    /\ idx' = idx + 1
    /\ cur' = NoCur
    /\ pc' = "loop"

\* lines 222-224
SkipRecord ==
    /\ pc = "loop" /\ idx <= Len(deals)
    /\ skipRecord(deals[idx])
    /\ nextRecord("skip")
    /\ UNCHANGED <<store, loaded, emptyStart, run, deals, changed,
                   pageFetches, downloads, fileWrites, storeWrites, x>>

\* lines 226-228: the request of getHtml goes out
FetchPage ==
    /\ pc = "loop" /\ idx <= Len(deals)
    /\ ~skipRecord(deals[idx])
    /\ pageFetches' = [pageFetches EXCEPT ![idx] = @ + 1]
    /\ pc' = "html"
    /\ UNCHANGED <<store, loaded, emptyStart, run, deals, idx, changed, cur, outcome,
                   downloads, fileWrites, storeWrites, x>>

\* line 190 throws, lines 286-288 catch
PageFailed ==
    /\ pc = "html"
    /\ nextRecord("failed")
    /\ UNCHANGED <<store, loaded, emptyStart, run, deals, changed,
                   pageFetches, downloads, fileWrites, storeWrites, x>>

\* lines 229-245
PageLoaded ==
    /\ pc = "html"
    /\ \E doc \in MainDocs :
          cur' = [cur EXCEPT !.doc = doc,
                             !.imgUrl = selectImage(doc, deals[idx].url)]
    /\ pc' = "selected"
    /\ UNCHANGED <<store, loaded, emptyStart, run, deals, idx, changed, outcome,
                   pageFetches, downloads, fileWrites, storeWrites, x>>

\* lines 247-250
NoUsableImage ==
    /\ pc = "selected"
    /\ noUsableImage(cur.imgUrl)
    /\ nextRecord("noimage")
    /\ UNCHANGED <<store, loaded, emptyStart, run, deals, changed,
                   pageFetches, downloads, fileWrites, storeWrites, x>>

\* line 253, getBuffer throws (line 203), lines 286-288 catch
DownloadFailed ==
    /\ pc = "selected"
    /\ ~noUsableImage(cur.imgUrl)
    /\ downloads' = [downloads EXCEPT ![idx] = @ + 1]
    /\ nextRecord("failed")
    /\ UNCHANGED <<store, loaded, emptyStart, run, deals, changed,
                   pageFetches, fileWrites, storeWrites, x>>

\* lines 253-266: the download, the metadata and the choice of a fallback
Downloaded ==
    /\ pc = "selected"
    /\ ~noUsableImage(cur.imgUrl)
    /\ downloads' = [downloads EXCEPT ![idx] = @ + 1]
    /\ \E meta \in Metas :
          LET fb == IF tooTiny(meta) THEN fallbackOf(cur.doc, deals[idx].url) ELSE Null
          IN  /\ cur' = [cur EXCEPT !.meta = meta,
                                    !.rescanned = tooTiny(meta),
                                    !.absFallback = fb,
                                    !.gets = Append(@, cur.imgUrl),
                                    !.buf = "first"]
              /\ pc' = IF tooTiny(meta) /\ useFallback(fb, cur.imgUrl)
                       THEN "fallback" ELSE "normalize"
    /\ UNCHANGED <<store, loaded, emptyStart, run, deals, idx, changed, outcome,
                   pageFetches, fileWrites, storeWrites, x>>

\* a failed fallback download swallowed: the first buffer goes on
FallbackFailedKeepsFirst ==
    /\ pc = "fallback"
    /\ downloads' = [downloads EXCEPT ![idx] = @ + 1]
    /\ pc' = "normalize"
    /\ UNCHANGED <<store, loaded, emptyStart, run, deals, idx, changed, cur, outcome,
                   pageFetches, fileWrites, storeWrites, x>>

\* line 268, getBuffer throws, lines 286-288 catch
FallbackFailed ==
    /\ pc = "fallback"
    /\ downloads' = [downloads EXCEPT ![idx] = @ + 1]
    /\ nextRecord("failed")
    /\ UNCHANGED <<store, loaded, emptyStart, run, deals, changed,
                   pageFetches, fileWrites, storeWrites, x>>

\* line 268; meta2 is what the fallback bytes would decode to
FallbackDownloaded ==
    /\ pc = "fallback"
    /\ downloads' = [downloads EXCEPT ![idx] = @ + 1]
    /\ \E m \in FallbackMetas :
          cur' = [cur EXCEPT !.gets = Append(@, cur.absFallback),
                             !.buf = "fallback", !.meta2 = m]
    /\ pc' = "normalize"
    /\ UNCHANGED <<store, loaded, emptyStart, run, deals, idx, changed, outcome,
                   pageFetches, fileWrites, storeWrites, x>>

\* lines 274-277 throw, lines 286-288 catch
NormalizeFailed ==
    /\ pc = "normalize"
    /\ nextRecord("failed")
    /\ UNCHANGED <<store, loaded, emptyStart, run, deals, changed,
                   pageFetches, downloads, fileWrites, storeWrites, x>>

\* lines 272-277
Normalized ==
    /\ pc = "normalize"
    /\ pc' = "write"
    /\ UNCHANGED <<store, loaded, emptyStart, run, deals, idx, changed, cur, outcome,
                   pageFetches, downloads, fileWrites, storeWrites, x>>

\* line 278 throws, lines 286-288 catch
WriteFailed ==
    /\ pc = "write"
    /\ fileWrites' = [fileWrites EXCEPT ![idx] = @ + 1]
    /\ nextRecord("failed")
    /\ UNCHANGED <<store, loaded, emptyStart, run, deals, changed,
                   pageFetches, downloads, storeWrites, x>>

\* lines 278-285
Saved ==
    /\ pc = "write"
    /\ fileWrites' = [fileWrites EXCEPT ![idx] = @ + 1]
    /\ deals' = [deals EXCEPT ![idx].image = imagePath(deals[idx]),
                              ![idx].imageAlt = altOf(deals[idx])]
    /\ changed' = TRUE
    /\ nextRecord("ok")
    /\ UNCHANGED <<store, loaded, emptyStart, run, pageFetches, downloads, storeWrites, x>>

\* lines 291-293
PersistCatalog ==
    /\ pc = "loop" /\ idx > Len(deals)
    /\ shouldPersist(changed)
    /\ store' = deals
    /\ storeWrites' = storeWrites + 1
    /\ pc' = "done"
    /\ UNCHANGED <<loaded, emptyStart, run, deals, idx, changed, cur, outcome,
                   pageFetches, downloads, fileWrites, x>>

\* lines 294-298
NoChanges ==
    /\ pc = "loop" /\ idx > Len(deals)
    /\ ~shouldPersist(changed)
    /\ pc' = "done"
    /\ UNCHANGED <<store, loaded, emptyStart, run, deals, idx, changed, cur, outcome,
                   pageFetches, downloads, fileWrites, storeWrites, x>>

\* line 301: the script is started again
Rerun ==
    /\ pc = "done" /\ run < MaxRuns
    /\ run' = run + 1
    /\ pc' = "start"
    /\ UNCHANGED <<store, loaded, emptyStart, deals, idx, changed, cur, outcome,
                   pageFetches, downloads, fileWrites, storeWrites, x>>

Next ==
    \/ ReadCatalog
    \/ SkipRecord
    \/ FetchPage
    \/ PageFailed
    \/ PageLoaded
    \/ NoUsableImage
    \/ DownloadFailed
    \/ Downloaded
    \/ FallbackFailed
    \/ FallbackDownloaded
    \/ NormalizeFailed
    \/ Normalized
    \/ WriteFailed
    \/ Saved
    \/ PersistCatalog
    \/ NoChanges
    \/ Rerun

Spec == Init /\ [][Next]_vars


\* ------------------------------------------- the pickers on bounded documents

MaxImgs == 2

MaxBlocks == 2

MaxEntries == 3

SeqsUpTo(S, n) == UNION {[1..m -> S] : m \in 0..n}

\* the values of a size-keyed map: [100,100], [400,400], or not an array
Sizes ==
    { [arr |-> FALSE, w |-> 0, h |-> 0],
      [arr |-> TRUE, w |-> 100, h |-> 100],
      [arr |-> TRUE, w |-> 400, h |-> 400] }

\* the i-th key of a size-keyed map
MapKey(i) == Url("abs", 10 + i, FALSE, FALSE)

DynOf(t, sizes) ==
    [t |-> t, ents |-> [i \in 1..Len(sizes) |-> [key |-> MapKey(i), size |-> sizes[i]]]]

Dyns ==
    { DynOf("map", sz) : sz \in SeqsUpTo(Sizes, MaxEntries) }
    \cup { DynOf("array", sz) : sz \in SeqsUpTo(Sizes, 1) }
    \cup { DynOf(t, <<>>) : t \in {"absent", "empty", "badjson", "null"} }

\* landmark elements without data-old-hires and src
BareLandmarks ==
    { Img(role, Null, Null, <<>>, dyn) : role \in {"landing", "wrapper"}, dyn \in Dyns }

OtherLandmarks ==
    { Img("landing", Empty, P2, <<>>, NoDyn),
      Img("landing", R1, Null, <<>>, DynOf("map", <<[arr |-> TRUE, w |-> 100, h |-> 100]>>)),
      Img("wrapper", A2, Empty, <<>>, NoDyn) }

PlainImgs ==
    { PlainImg(u) : u \in {Empty, A1, R1, D3, B4, X5, C6} }
    \cup { Img("plain", Null, Null, ss, NoDyn) : ss \in {<<Empty>>, <<R1, Empty, A2>>, <<X5, D3>>} }
    \cup { Img("plain", Empty, Null, <<>>, dyn) :
              dyn \in {DynOf(t, <<[arr |-> TRUE, w |-> 100, h |-> 100]>>) :
                          t \in {"map", "array", "badjson", "null"}} }

ImgLists ==
    SeqsUpTo(PlainImgs, MaxImgs)
    \cup { <<l>> : l \in BareLandmarks }
    \cup { <<l>> \o rest : l \in OtherLandmarks, rest \in SeqsUpTo(PlainImgs, 1) }
    \cup { <<l, PlainImg(u)>> : l \in BareLandmarks, u \in {R1, C6} }
    \cup { <<l, w>> : l \in {e \in BareLandmarks : e.role = "landing" /\ e.dyn.t # "array"
                                                  /\ \A i \in 1..Len(e.dyn.ents) : ~e.dyn.ents[i].size.arr},
                      w \in {e \in BareLandmarks \cup OtherLandmarks : e.role = "wrapper"} }

LdItem(isObj, it, iv, ot, ov) ==
    [isObj |-> isObj, image |-> [t |-> it, v |-> iv], offers |-> [t |-> ot, v |-> ov]]

LdItems ==
    { LdItem(FALSE, "absent", Null, "absent", Null) }
    \cup { LdItem(TRUE, "str", v, "absent", Null) : v \in {Empty, A1, R1} }
    \cup { LdItem(TRUE, "arr", v, "absent", Null) : v \in {Null, A2, ObjVal} }
    \cup { LdItem(TRUE, it, Null, "obj", v) : it \in {"absent", "arr0", "other"}, v \in {Null, A2} }
    \cup { LdItem(TRUE, "absent", Null, "other", Null) }

LdBlocks ==
    { [t |-> t, items |-> <<>>] : t \in {"empty", "badjson", "other"} }
    \cup { [t |-> "obj", items |-> <<it>>] : it \in {i \in LdItems : i.isObj} }
    \cup { [t |-> "arr", items |-> its] :
              its \in {<<>>, <<LdItem(FALSE, "absent", Null, "absent", Null),
                               LdItem(TRUE, "str", A1, "absent", Null)>>,
                       <<LdItem(TRUE, "arr", ObjVal, "absent", Null)>>} }

MetaLists ==
    { NoMetaTags, MetaAt(1, A1), MetaAt(5, R1), MetaAt(2, X5),
      [i \in 1..NumMetaSels |-> IF i = 1 THEN Empty ELSE IF i = 3 THEN A2 ELSE A1] }

\* each picker reads one part of the document
Docs ==
    { Doc(m, <<>>, <<>>) : m \in MetaLists }
    \cup { Doc(NoMetaTags, l, <<>>) : l \in SeqsUpTo(LdBlocks, MaxBlocks) }
    \cup { Doc(NoMetaTags, <<>>, i) : i \in ImgLists }

PageUrls == { PageUrl(a, p) : a, p \in BOOLEAN }

InitPick ==
    /\ store = <<>> /\ loaded = <<>> /\ emptyStart = TRUE /\ run = 1
    /\ pc = "idle" /\ deals = <<>> /\ idx = 0 /\ changed = FALSE /\ cur = NoCur
    /\ outcome = <<>> /\ pageFetches = <<>> /\ downloads = <<>> /\ fileWrites = <<>>
    /\ storeWrites = 0
    /\ \E doc \in Docs, url \in PageUrls :
          x = [NoPick EXCEPT !.step = "og", !.doc = doc, !.url = url]

ApplyOg ==
    /\ x.step = "og"
    /\ x' = [x EXCEPT !.og = pickOgImage(x.doc), !.step = "ld"]
    /\ UNCHANGED mainVars

ApplyLdJson ==
    /\ x.step = "ld"
    /\ x' = [x EXCEPT !.ld = pickFromLdJson(x.doc), !.step = "gen"]
    /\ UNCHANGED mainVars

ApplyFirstLargeImg ==
    /\ x.step = "gen"
    /\ x' = [x EXCEPT !.gen = pickFirstLargeImg(x.doc, x.url), !.step = "amz"]
    /\ UNCHANGED mainVars

ApplyAmazon ==
    /\ x.step = "amz"
    /\ x' = [x EXCEPT !.amz = pickAmazonImage(x.doc), !.step = "end"]
    /\ UNCHANGED mainVars

NextPick ==
    \/ ApplyOg
    \/ ApplyLdJson
    \/ ApplyFirstLargeImg
    \/ ApplyAmazon

SpecPick == InitPick /\ [][NextPick]_vars

\* ------------------------------------------------------- claims on the pickers

\* the entries of a size-keyed map whose value is a [width, height] array
arrayEntries(ents) == {i \in 1..Len(ents) : ents[i].size.arr}

\* the earliest key among those of largest width*height
largestKey(ents) ==
    LET V == arrayEntries(ents)
        a(i) == ents[i].size.w * ents[i].size.h
    IN  ents[CHOOSE i \in V : \A j \in V : a(i) > a(j) \/ (a(i) = a(j) /\ i <= j)].key

\* a landmark element with neither data-old-hires nor src
bare(el) == el.role # "none" /\ ~Truthy(el.hires) /\ ~Truthy(el.src)

bareMap(el) == bare(el) /\ el.dyn.t = "map" /\ arrayEntries(el.dyn.ents) # {}

\* the element is missing, or bare with no map or a map without array values
givesNothing(el) ==
    \/ el.role = "none"
    \/ bare(el) /\ el.dyn.t \in {"absent", "empty", "badjson", "null"}
    \/ bare(el) /\ el.dyn.t = "map" /\ arrayEntries(el.dyn.ents) = {}

\* C8: for a landmark element without data-old-hires and src whose size-keyed
\* map parses, pickAmazonImage returns the key of largest width*height, the
\* earliest one on ties, values that are not arrays being ignored; the
\* secondary landmark is read this way when the primary one gives nothing.
C8_LargestOfMap ==
    x.step = "end" =>
        LET l == byRole(x.doc, "landing")
            w == byRole(x.doc, "wrapper")
        IN  /\ bareMap(l) => x.amz = largestKey(l.dyn.ents)
            /\ givesNothing(l) /\ bareMap(w) => x.amz = largestKey(w.dyn.ents)

\* the map {a:[100,100], b:[400,400], c:"not-an-array"} gives b
C8_Witness ==
    /\ x.step = "end"
    /\ bareMap(byRole(x.doc, "landing"))
    /\ [i \in 1..Len(byRole(x.doc, "landing").dyn.ents) |->
           byRole(x.doc, "landing").dyn.ents[i].size]
         = << [arr |-> TRUE, w |-> 100, h |-> 100],
              [arr |-> TRUE, w |-> 400, h |-> 400],
              [arr |-> FALSE, w |-> 0, h |-> 0] >>
    /\ x.amz = MapKey(2)

\* the document without its malformed embedded data: ld+json blocks that do
\* not parse to an object or array of objects, image arrays whose first entry
\* is not a string, size-keyed maps that do not parse to an object
cleanItem(it) ==
    IF it.image.t = "arr" /\ ~IsString(it.image.v)
    THEN [it EXCEPT !.image = [t |-> "absent", v |-> Null]] ELSE it

cleanBlock(b) ==
    IF b.t \in {"badjson", "other"} THEN [t |-> "empty", items |-> <<>>]
    ELSE [b EXCEPT !.items = [i \in 1..Len(b.items) |-> cleanItem(b.items[i])]]

cleanImg(el) == IF el.dyn.t \in {"badjson", "null", "array"} THEN [el EXCEPT !.dyn = NoDyn] ELSE el

clean(doc) ==
    [doc EXCEPT !.ld = [i \in 1..Len(doc.ld) |-> cleanBlock(doc.ld[i])],
                !.imgs = [i \in 1..Len(doc.imgs) |-> cleanImg(doc.imgs[i])]]

UrlOrNothing(v) == v = Null \/ (IsString(v) /\ Truthy(v))

\* C9: every picker returns a URL string or nothing, and malformed or
\* unexpectedly shaped embedded data contributes no candidate: the result is
\* the one the document gives without that data (so the blocks after a
\* malformed one are still scanned).
C9_NoCandidateFromMalformed ==
    x.step = "end" =>
        /\ UrlOrNothing(x.og) /\ UrlOrNothing(x.ld)
        /\ UrlOrNothing(x.gen) /\ UrlOrNothing(x.amz)
        /\ x.ld = pickFromLdJson(clean(x.doc))
        /\ x.gen = pickFirstLargeImg(clean(x.doc), x.url)
        /\ x.amz = pickAmazonImage(clean(x.doc))

\* --------------------------------------------------- claims on the record loop

imageEmpty(d) == d.image.t \in {"absent", "empty"}

\* a record main must not process: image already there, or id or url missing
ineligible(d) == ~imageEmpty(d) \/ d.id = 0 \/ d.url.k = "missing"

running == pc \in {"loop", "html", "selected", "fallback", "normalize", "write"}

imageSetInRun == \E i \in 1..Len(deals) : deals[i].image # loaded[i].image

\* C1: the catalog store is written exactly once, after the last record, when
\* a record's image was set during the run, and not at all otherwise; it is
\* never written while the record loop is running.
C1_StoreWrittenOnceAtEnd ==
    /\ running => storeWrites = 0 /\ store = loaded
    /\ pc = "done" =>
          /\ storeWrites = IF imageSetInRun THEN 1 ELSE 0
          /\ store = IF imageSetInRun THEN deals ELSE loaded

\* a run that set one record and failed on another has written the store once
C1_Witness ==
    /\ pc = "done" /\ storeWrites = 1
    /\ \E i, j \in 1..Len(deals) : outcome[i] = "ok" /\ outcome[j] = "failed"

\* C2 (state part): a record that failed keeps its image field unset, has not
\* marked the run changed, and the loop reaches every record after it.
C2_FailedRecord ==
    /\ \A i \in 1..Len(outcome) :
          outcome[i] = "failed" =>
              /\ imageEmpty(deals[i]) /\ deals[i] = loaded[i]
              /\ idx > i
    /\ changed => \E j \in 1..Len(outcome) : outcome[j] = "ok"
    /\ pc = "done" => \A i \in 1..Len(outcome) : outcome[i] # "none"

\* C2 (step part): a failure at a stage ends the record as failed with the
\* catalog and the changed flag as they were; after a failed fallback download
\* the first buffer is not normalized.
C2_FailureStep ==
    /\ pc = "html" /\ pc' # "selected" => outcome'[idx] = "failed"
    /\ pc = "selected" /\ ~noUsableImage(cur.imgUrl) /\ pc' \notin {"fallback", "normalize"}
          => outcome'[idx] = "failed"
    /\ pc = "fallback" /\ pc' # "normalize" => outcome'[idx] = "failed"
    /\ pc = "fallback" /\ pc' = "normalize" => cur'.buf = "fallback"
    /\ pc = "normalize" /\ pc' # "write" => outcome'[idx] = "failed"
    /\ pc = "write" /\ deals' = deals => outcome'[idx] = "failed"
    /\ pc \in {"html", "selected", "fallback", "normalize", "write"} /\ pc' = "loop"
          /\ outcome'[idx] = "failed"
          => deals' = deals /\ changed' = changed /\ idx' = idx + 1

\* C2: a failure at any stage leaves the record's image unset and the run
\* unmarked, and the loop goes on; a failed fallback download fails the record.
C2_FailureIsolated == []C2_FailedRecord /\ [][C2_FailureStep]_vars

\* a failed record followed by a record that was saved
C2_Witness ==
    /\ pc = "done"
    /\ \E i, j \in 1..Len(outcome) : i < j /\ outcome[i] = "failed" /\ outcome[j] = "ok"

\* C3: a record with an image, or without id or url, gets no page fetch, no
\* download and no image file, and keeps image and imageAlt; the catalog keeps
\* its records and their order.
C3_IneligibleUntouched ==
    pc # "start" =>
        /\ Len(deals) = Len(loaded) /\ Len(store) = Len(loaded)
        /\ \A i \in 1..Len(loaded) :
              /\ deals[i].id = loaded[i].id /\ store[i].id = loaded[i].id
              /\ deals[i].url = loaded[i].url /\ deals[i].title = loaded[i].title
              /\ ineligible(loaded[i]) =>
                    /\ pageFetches[i] = 0 /\ downloads[i] = 0 /\ fileWrites[i] = 0
                    /\ deals[i] = loaded[i] /\ store[i] = loaded[i]

C3_Witness ==
    /\ pc = "done"
    /\ \E i, j \in 1..Len(loaded) :
          /\ ~imageEmpty(loaded[i]) /\ outcome[i] = "skip"
          /\ outcome[j] = "ok"

\* the URLs getBuffer has been or is about to be called with for this record
passedToGetBuffer ==
    {cur.gets[i] : i \in 1..Len(cur.gets)}
    \cup (IF pc = "selected" /\ ~noUsableImage(cur.imgUrl) THEN {cur.imgUrl} ELSE {})
    \cup (IF pc = "fallback" THEN {cur.absFallback} ELSE {})

\* C4: every URL passed to getBuffer, first candidate or fallback, whichever
\* picker produced it, is absolute, is not a data: URL and is not a tracking
\* pixel.
C4_DownloadedUrlsAreClean ==
    \A u \in passedToGetBuffer : u.k = "abs" /\ ~isTrackingPixelUrl(u)

atNormalize == pc \in {"normalize", "write"}

\* C5 as stated: at most one fallback download; a 50x50 first image is
\* followed by exactly one fallback download before normalization, a 200x200
\* one by none.
C5_ExactlyOneFallback ==
    /\ Len(cur.gets) <= 2
    /\ atNormalize /\ cur.meta = Meta(50, 50) => Len(cur.gets) = 2
    /\ atNormalize /\ cur.meta = Meta(200, 200) => Len(cur.gets) = 1

\* the generic scan gives an alternate that is distinct from the first
\* candidate and is not a tracking pixel
hasAlternate ==
    LET alt == fallbackOf(cur.doc, deals[idx].url)
    IN  alt # Null /\ alt # cur.imgUrl /\ ~alt.px

\* C5 amended: at most one fallback download per record; a 50x50 first image
\* is followed by exactly one fallback download when the generic scan gives a
\* distinct alternate that is not a tracking pixel and by none otherwise; a
\* 200x200 one by none; the fallback bytes go to normalization whatever they
\* decode to.
C5_AtMostOneFallback ==
    /\ Len(cur.gets) <= 2
    /\ downloads \in [DOMAIN downloads -> 0..2]
    /\ atNormalize /\ cur.meta = Meta(50, 50) =>
          Len(cur.gets) = IF hasAlternate THEN 2 ELSE 1
    /\ atNormalize /\ cur.meta = Meta(200, 200) => Len(cur.gets) = 1
    /\ atNormalize => cur.buf = IF Len(cur.gets) = 2 THEN "fallback" ELSE "first"

\* a 50x50 first image, one fallback downloaded, itself 50x50, normalized
C5_Witness ==
    /\ pc = "write" /\ cur.meta = Meta(50, 50) /\ cur.meta2 = Meta(50, 50)
    /\ Len(cur.gets) = 2 /\ cur.buf = "fallback"

\* C6: the first image is treated as degenerate exactly when its dimensions
\* are unknown (decoding failed, or no width or no height reported) or both
\* are known with width*height < 10,000.
C6_DegenerateIffUnknownOrSmall ==
    pc \in {"fallback", "normalize", "write"} =>
        (cur.rescanned <=>
            \/ ~cur.meta.ok \/ cur.meta.w = 0 \/ cur.meta.h = 0
            \/ cur.meta.w * cur.meta.h < 10000)

RECURSIVE firstNonEmpty(_, _)
firstNonEmpty(results, i) ==
    IF i > Len(results) THEN Null
    ELSE IF results[i] \notin {Null, Empty} THEN results[i]
    ELSE firstNonEmpty(results, i + 1)

\* the ordered chain of picker results for a page and its address
chain(doc, url) ==
    IF url.amazon
    THEN <<pickAmazonImage(doc), pickOgImage(doc), pickFromLdJson(doc),
           pickFirstLargeImg(doc, url)>>
    ELSE <<pickOgImage(doc), pickFromLdJson(doc), pickFirstLargeImg(doc, url)>>

C7_Selected ==
    pc \in {"selected", "fallback", "normalize", "write"} =>
        /\ cur.imgUrl = absolutize(firstNonEmpty(chain(cur.doc, deals[idx].url), 1),
                                   deals[idx].url)
        /\ pc # "selected" => cur.imgUrl # Null /\ ~cur.imgUrl.px

C7_SkipStep ==
    pc = "selected" /\ (cur.imgUrl \in {Null, Empty} \/ cur.imgUrl.px) =>
        /\ outcome'[idx] = "noimage" /\ idx' = idx + 1
        /\ deals' = deals /\ imageEmpty(deals[idx]) /\ changed' = changed
        /\ downloads' = downloads

\* C7: the selected candidate is the first non-empty result of marketplace,
\* meta, structured data, generic for a marketplace address and of meta,
\* structured data, generic otherwise, absolutized against the record url; when
\* that is empty or a tracking pixel the record is skipped, image left empty.
C7_SelectionChain == []C7_Selected /\ [][C7_SkipStep]_vars

\* on a marketplace page the landmark wins over a meta tag naming another
\* image; on another page the meta tag is taken
C7_Witness ==
    /\ pc = "selected"
    /\ deals[idx].url.amazon
    /\ Truthy(pickOgImage(cur.doc))
    /\ Truthy(pickAmazonImage(cur.doc))
    /\ cur.imgUrl = absolutize(pickAmazonImage(cur.doc), deals[idx].url)
    /\ cur.imgUrl # absolutize(pickOgImage(cur.doc), deals[idx].url)

noIo(i) == pageFetches[i] = 0 /\ downloads[i] = 0 /\ fileWrites[i] = 0

secondRun == run = 2 /\ pc # "start" /\ emptyStart

\* C10 as stated: the second run on a catalog that started with empty images
\* fetches nothing, writes no image file and does not rewrite the store.
C10_SecondRunNoOp ==
    secondRun => storeWrites = 0 /\ \A i \in 1..Len(loaded) : noIo(i)

\* C10 amended: in the second run a record whose image the first run set gets
\* no page fetch, no download and no image file; when the first run set every
\* record's image the second run does nothing and leaves the store as it is.
C10_SecondRunSkipsEnriched ==
    secondRun =>
        /\ \A i \in 1..Len(loaded) : ~imageEmpty(loaded[i]) => noIo(i) /\ deals[i] = loaded[i]
        /\ (\A i \in 1..Len(loaded) : ~imageEmpty(loaded[i])) =>
              storeWrites = 0 /\ store = loaded /\ ~changed

C10_Witness ==
    /\ secondRun /\ pc = "done" /\ Len(loaded) = MaxRecords
    /\ \A i \in 1..Len(loaded) : loaded[i].image = [t |-> "webp", id |-> i]
    /\ storeWrites = 0

====
